---- MODULE Spec2Model ----
(***************************************************************************)
(* State-machine model of the carValueAi backend (src/app.py): the Flask   *)
(* request handlers, the token guard, the password and token helpers and   *)
(* the four MongoDB collections with their unique indexes.                  *)
(*                                                                         *)
(* Text is modelled as a sequence of one-character strings so that strip,  *)
(* lower, split and len are computed as Python computes them.  Keyed       *)
(* hashes (HMAC-SHA256, HS256, bcrypt) are modelled by a keyed polynomial  *)
(* hash over the message's characters: what matters to the handlers is     *)
(* only that the digest is a function of key and message.  Time is counted *)
(* in whole seconds, the resolution of strftime('%Y%m%d%H%M%S').           *)
(***************************************************************************)
EXTENDS Integers, Sequences, FiniteSets, TLC

VARIABLES
    now,               \* the wall clock, in seconds
    mongodb_connected, \* app.py:49, set once by init_mongodb()
    model,             \* app.py:110/117: "loaded" or "None"
    razorpay_client,   \* app.py:39/43: "client" or "None"
    users,             \* collections['users']
    cars,              \* collections['cars']
    payments,          \* collections['payments']
    bookings,          \* collections['bookings']
    gateway_orders,    \* orders minted so far by the payment gateway
    outbox,            \* booking ids for which a confirmation mail went out
    held,              \* session tokens the clients hold (issued by the server)
    resp,              \* the response to the last request
    verify_log,        \* history: the verify-payment requests received so far
    signed_up,         \* history: the (email, password) of each successful signup
    pending            \* the signup requests in flight, each at its own line

vars == <<now, mongodb_connected, model, razorpay_client, users, cars,
          payments, bookings, gateway_orders, outbox, held, resp, verify_log,
          signed_up, pending>>

store == <<users, cars, payments, bookings, gateway_orders, outbox>>
config == <<mongodb_connected, model, razorpay_client>>

(***************************************************************************)
(* Bounds of the model.                                                    *)
(***************************************************************************)
MaxOrders == 2

(***************************************************************************)
(* Program constants.                                                      *)
(***************************************************************************)
JWT_EXPIRATION_HOURS == 24
SecondsPerHour == 3600
MinPasswordLen == 6
FallbackPrice == 450000
MinPrice == 50000
MaxPrice == 5000000
HashMod == 65521

(***************************************************************************)
(* Text.                                                                   *)
(***************************************************************************)
Digits == <<"0", "1", "2", "3", "4", "5", "6", "7", "8", "9">>
HexChars == Digits \o <<"a", "b", "c", "d", "e", "f">>
Chars == HexChars \o <<" ", ".", "@", "|", "n", "o", "p", "r", "s", "t", "u",
                       "w", "x", "y", "z", "A", "B", "C">>

Ord(c) == CHOOSE i \in 1..Len(Chars) : Chars[i] = c

UpperChars == <<"A", "B", "C">>
LowerChars == <<"a", "b", "c">>

\* str.lower() on one character
LowerChar(c) ==
    IF \E i \in 1..Len(UpperChars) : UpperChars[i] = c
    THEN LowerChars[CHOOSE i \in 1..Len(UpperChars) : UpperChars[i] = c]
    ELSE c

\* str.lower()
Lower(s) == [i \in 1..Len(s) |-> LowerChar(s[i])]

RECURSIVE LStrip(_)
LStrip(s) == IF s # <<>> /\ Head(s) = " " THEN LStrip(Tail(s)) ELSE s

RECURSIVE RStrip(_)
RStrip(s) ==
    IF s # <<>> /\ s[Len(s)] = " " THEN RStrip(SubSeq(s, 1, Len(s) - 1)) ELSE s

\* str.strip()
Strip(s) == RStrip(LStrip(s))

\* c in s
Contains(s, c) == \E i \in 1..Len(s) : s[i] = c

\* s.split(c)[1], for an s that contains c: the text between the first c and
\* the next one (or the end)
SplitSecond(s, c) ==
    LET first == CHOOSE i \in 1..Len(s) : s[i] = c /\ \A j \in 1..(i - 1) : s[j] # c
        rest == SubSeq(s, first + 1, Len(s))
        stop == IF Contains(rest, c)
                THEN (CHOOSE i \in 1..Len(rest) :
                          rest[i] = c /\ \A j \in 1..(i - 1) : rest[j] # c) - 1
                ELSE Len(rest)
    IN  SubSeq(rest, 1, stop)

(***************************************************************************)
(* Keyed hashing.                                                          *)
(***************************************************************************)
RECURSIVE Mix(_, _)
Mix(h, s) ==
    IF s = <<>> THEN h ELSE Mix((h * 31 + Ord(Head(s))) % HashMod, Tail(s))

\* the digest of message s under key k
KeyedHash(k, s) == Mix((k * 7919) % HashMod, s)

(***************************************************************************)
(* Identifiers and timestamps.                                             *)
(***************************************************************************)
SecondsPerDay == 24 * SecondsPerHour

\* datetime.strftime('%Y%m%d%H%M%S'): the date (as a day number), hour,
\* minute and second of the instant t; nothing finer than the second
Strftime(t) ==
    <<t \div SecondsPerDay, (t % SecondsPerDay) \div SecondsPerHour,
      (t % SecondsPerHour) \div 60, t % 60>>

\* f"USER_{...}", f"CAR_{...}", f"BOOK_{...}"
MakeId(prefix, t) == <<prefix>> \o Strftime(t)

NoId == <<>>

\* the number an identifier's timestamp stands for (used when hashing it)
IdNum(id) ==
    IF Len(id) = 5
    THEN id[2] * SecondsPerDay + id[3] * SecondsPerHour + id[4] * 60 + id[5]
    ELSE IF Len(id) = 2 THEN id[2] ELSE 0

(***************************************************************************)
(* Authentication helpers (app.py:123-178).                                *)
(***************************************************************************)
Salts == {3, 5}

\* JSON values of a request body's password field
Str(s) == [t |-> "str", s |-> s]
Num(s) == [t |-> "num", s |-> s]
Null == [t |-> "null", s |-> <<>>]

\* Python truthiness of a JSON value: not None, not "", not 0
Truthy(v) == v.t # "null" /\ v.s # <<>> /\ v.s # <<"0">>

hash_password(password, salt) ==
    [salt |-> salt, digest |-> KeyedHash(salt, password)]

\* a check that hashes the password again, under a salt of its own
verify_password_resalted(password, hashed) ==
    hash_password(password, CHOOSE salt \in Salts : TRUE) = hashed

verify_password(password, hashed) ==
    KeyedHash(hashed.salt, password) = hashed.digest

JWT_SECRET == 4242
\* a key that is not the server's
OtherKey == JWT_SECRET + 1

JwtSignature(key, p) ==
    (KeyedHash(key, p.email) + 3 * IdNum(p.user_id) + 5 * p.exp + 7 * p.iat)
        % HashMod

NoToken == [user_id |-> NoId, email |-> <<>>, exp |-> 0, iat |-> 0, sig |-> 0]

\* jwt.encode(payload, key, HS256)
JwtEncode(p, key) ==
    [user_id |-> p.user_id, email |-> p.email, exp |-> p.exp, iat |-> p.iat,
     sig |-> JwtSignature(key, p)]

create_jwt_token(user_id, email, t) ==
    JwtEncode([user_id |-> user_id, email |-> email,
               exp |-> t + JWT_EXPIRATION_HOURS * SecondsPerHour, iat |-> t],
              JWT_SECRET)

\* One space-separated part of an Authorization header, or the token field of
\* a verify-token body: a plain word, or an encoded token.
Word(w) == [w |-> w, tok |-> NoToken]
Jwt(tok) == [w |-> "jwt", tok |-> tok]

NoPayload == [valid |-> FALSE, user_id |-> NoId, email |-> <<>>]

\* a decode that does not check the signature
verify_jwt_token_unsigned(part, t) ==
    IF part.w # "jwt" THEN NoPayload
    ELSE IF part.tok.exp <= t THEN NoPayload
    ELSE [valid |-> TRUE, user_id |-> part.tok.user_id, email |-> part.tok.email]

\* a decode that does not check the expiry
verify_jwt_token_unexpiring(part, t) ==
    IF part.w # "jwt" THEN NoPayload
    ELSE IF part.tok.sig # JwtSignature(JWT_SECRET, part.tok) THEN NoPayload
    ELSE [valid |-> TRUE, user_id |-> part.tok.user_id, email |-> part.tok.email]

\* a decode on a server that ends the session at logout
verify_jwt_token_revoked(part, t) ==
    IF part.w # "jwt" THEN NoPayload
    ELSE IF resp.op = "logout" /\ resp.code = 200 THEN NoPayload
    ELSE IF part.tok.sig # JwtSignature(JWT_SECRET, part.tok) THEN NoPayload
    ELSE IF part.tok.exp <= t THEN NoPayload
    ELSE [valid |-> TRUE, user_id |-> part.tok.user_id, email |-> part.tok.email]

\* jwt.decode: the signature is checked first, then the expiry (a token is
\* expired once exp <= now); either failure gives None
verify_jwt_token(part, t) ==
    IF part.w # "jwt" THEN NoPayload
    ELSE IF part.tok.sig # JwtSignature(JWT_SECRET, part.tok) THEN NoPayload
    ELSE IF part.tok.exp <= t THEN NoPayload
    ELSE [valid |-> TRUE, user_id |-> part.tok.user_id, email |-> part.tok.email]

\* An Authorization header: absent, or the list auth_header.split(" ")
NoHeader == [present |-> FALSE, parts |-> <<>>]
Header(parts) == [present |-> TRUE, parts |-> parts]

\* the decorator's verdict: code 0 lets the request through to the handler
token_required(h, t) ==
    IF h.present /\ Len(h.parts) < 2
    THEN [code |-> 401, error |-> "Invalid token format", payload |-> NoPayload]
    ELSE IF ~h.present \/ h.parts[2] = Word("")
    THEN [code |-> 401, error |-> "Token is missing", payload |-> NoPayload]
    ELSE IF ~verify_jwt_token(h.parts[2], t).valid
    THEN [code |-> 401, error |-> "Invalid or expired token", payload |-> NoPayload]
    ELSE [code |-> 0, error |-> "", payload |-> verify_jwt_token(h.parts[2], t)]

(***************************************************************************)
(* Responses.                                                              *)
(***************************************************************************)
Response(op, code, status) ==
    [op |-> op, code |-> code, status |-> status, error |-> "",
     user_id |-> NoId, email |-> <<>>, token |-> NoToken, id |-> NoId,
     price |-> 0, flag |-> FALSE]

Error(op, code, msg) == [Response(op, code, "error") EXCEPT !.error = msg]

\* the decorator's 401
Rejected(op, g) == Error(op, g.code, g.error)

(***************************************************************************)
(* The collections and their unique indexes (app.py:80-85).                *)
(***************************************************************************)
DuplicateKey == "E11000 duplicate key error"

\* The client keeps the token it was sent last (the page's localStorage),
\* noted with the time, user id and email it was issued at and for.
Hold(tok, user_id, email) ==
    held' = {[tok |-> tok, at |-> now, user_id |-> user_id, email |-> email]}

(***************************************************************************)
(* Each handler is an operator that gives the response and the new value   *)
(* of every collection the handler may write, and an action that applies   *)
(* it.  What the environment decides (the salt bcrypt draws, whether the   *)
(* gateway or the mail server answers) is a parameter of the operator.     *)
(***************************************************************************)

(***************************************************************************)
(* POST /api/auth/signup (app.py:292-343).                                 *)
(***************************************************************************)
\* a normalisation that forgets lower()
normalize_email_cased(raw) == Strip(raw)

\* data['email'].strip().lower()
normalize_email(raw) == Lower(Strip(raw))

\* find_one({'email': email})
find_user(email) == {u \in users : u.email = email}

\* the checks that come before the user is built; code 0 passes
signup_validation(data) ==
    LET email == normalize_email(data.email) IN
    IF data.name = <<>> \/ data.email = <<>> \/ ~Truthy(data.password)
    THEN Error("signup", 400, "Missing required fields")
    ELSE IF ~Contains(email, "@") \/ ~Contains(SplitSecond(email, "@"), ".")
    THEN Error("signup", 400, "Invalid email format")
    ELSE IF data.password.t # "str"
    THEN Error("signup", 400, "object of type 'int' has no len()")
    ELSE IF Len(data.password.s) < MinPasswordLen
    THEN Error("signup", 400, "Password must be at least 6 characters")
    ELSE IF ~mongodb_connected
    THEN Error("signup", 500, "Database not connected")
    ELSE IF find_user(email) # {}
    THEN Error("signup", 400, "Email already registered")
    ELSE Response("signup", 0, "")

\* insert_one on users: the unique indexes on email and user_id
users_insert_raises(doc) ==
    \E u \in users : u.email = doc.email \/ u.user_id = doc.user_id

signup_result(data, salt) ==
    LET email == normalize_email(data.email)
        user_id == MakeId("USER", now)
        checked == signup_validation(data)
        user_doc == [user_id |-> user_id,
                     name |-> Strip(data.name),
                     email |-> email,
                     password |-> hash_password(data.password.s, salt),
                     created_at |-> now,
                     last_login |-> -1]
    IN  IF checked.code # 0
        THEN [resp |-> checked, users |-> users]
        ELSE IF users_insert_raises(user_doc)
        THEN [resp |-> Error("signup", 400, DuplicateKey), users |-> users]
        ELSE [resp |-> [Response("signup", 201, "success") EXCEPT
                           !.user_id = user_id, !.email = email,
                           !.token = create_jwt_token(user_id, email, now)],
              users |-> users \cup {user_doc}]

\* salts: the salts bcrypt.gensalt() may draw
signup(data, salts) ==
    /\ UNCHANGED <<now, config, pending, cars, payments, bookings, gateway_orders,
                   outbox, verify_log>>
    /\ \E salt \in salts :
        LET r == signup_result(data, salt) IN
        /\ resp' = r.resp
        /\ users' = r.users
        /\ IF r.resp.code = 201
           THEN /\ Hold(r.resp.token, r.resp.user_id, r.resp.email)
                /\ signed_up' = signed_up \cup
                       {[email |-> data.email, password |-> data.password,
                         user_id |-> r.resp.user_id]}
           ELSE UNCHANGED <<held, signed_up>>

(***************************************************************************)
(* Signup under a threaded server: each request runs the handler's lines   *)
(* in order, and other requests run between its find_one (line 312) and    *)
(* its insert_one (line 328); each of the two is one operation of the      *)
(* database.  pending[r] is request r: where it stands, its body, the      *)
(* document it built and its response.                                     *)
(***************************************************************************)
MaxRequests == 3

Requests == 1..MaxRequests

Idle == [pc |-> "idle", data |-> <<>>, doc |-> <<>>, resp |-> Response("none", 0, "")]

\* the request arrives: lines 296-326, up to the document ready to insert
signup_lookup(r, data, salt) ==
    /\ pending[r].pc = "idle"
    /\ UNCHANGED <<now, config, store, held, verify_log, signed_up>>
    /\ LET email == normalize_email(data.email)
           checked == signup_validation(data)
           user_doc == [user_id |-> MakeId("USER", now),
                        name |-> Strip(data.name),
                        email |-> email,
                        password |-> hash_password(data.password.s, salt),
                        created_at |-> now,
                        last_login |-> -1]
       IN  IF checked.code # 0
           THEN /\ pending' = [pending EXCEPT ![r] =
                        [pc |-> "done", data |-> data, doc |-> <<>>,
                         resp |-> checked]]
                /\ resp' = checked
           ELSE /\ pending' = [pending EXCEPT ![r] =
                        [pc |-> "insert", data |-> data, doc |-> user_doc,
                         resp |-> Response("none", 0, "")]]
                /\ UNCHANGED resp

\* lines 328-337: insert_one, then the token and the response
signup_insert(r) ==
    /\ pending[r].pc = "insert"
    /\ UNCHANGED <<now, config, cars, payments, bookings, gateway_orders,
                   outbox, verify_log>>
    /\ LET user_doc == pending[r].doc
           answer == IF users_insert_raises(user_doc)
                     THEN Error("signup", 400, DuplicateKey)
                     ELSE [Response("signup", 201, "success") EXCEPT
                              !.user_id = user_doc.user_id,
                              !.email = user_doc.email,
                              !.token = create_jwt_token(user_doc.user_id,
                                                         user_doc.email, now)]
       IN  /\ pending' = [pending EXCEPT ![r].pc = "done", ![r].resp = answer]
           /\ resp' = answer
           /\ IF answer.code = 201
              THEN /\ users' = users \cup {user_doc}
                   /\ Hold(answer.token, answer.user_id, answer.email)
                   /\ signed_up' = signed_up \cup
                          {[email |-> pending[r].data.email,
                            password |-> pending[r].data.password,
                            user_id |-> answer.user_id]}
              ELSE UNCHANGED <<users, held, signed_up>>

(***************************************************************************)
(* POST /api/auth/login (app.py:345-386).                                  *)
(***************************************************************************)
login_response(data) ==
    LET email == normalize_email(data.email) IN
    IF data.email = <<>> \/ ~Truthy(data.password)
    THEN Error("login", 400, "Missing email or password")
    ELSE IF ~mongodb_connected
    THEN Error("login", 500, "Database not connected")
    ELSE IF find_user(email) = {}
    THEN Error("login", 401, "Invalid email or password")
    ELSE LET user == CHOOSE u \in find_user(email) : TRUE IN
         IF data.password.t # "str"
         THEN Error("login", 400, "'int' object has no attribute 'encode'")
         ELSE IF ~verify_password(data.password.s, user.password)
         THEN Error("login", 401, "Invalid email or password")
         ELSE [Response("login", 200, "success") EXCEPT
                  !.user_id = user.user_id,
                  !.token = create_jwt_token(user.user_id, email, now),
                  !.email = user.email]

login_result(data) ==
    LET r == login_response(data) IN
    [resp |-> r,
     users |-> IF r.code = 200
               THEN {IF u.user_id = r.user_id
                     THEN [u EXCEPT !.last_login = now] ELSE u : u \in users}
               ELSE users]

login(data) ==
    /\ UNCHANGED <<now, config, pending, cars, payments, bookings, gateway_orders,
                   outbox, verify_log, signed_up>>
    /\ LET r == login_result(data) IN
        /\ resp' = r.resp
        /\ users' = r.users
        /\ IF r.resp.code = 200
           THEN Hold(r.resp.token, r.resp.user_id, r.resp.email)
           ELSE UNCHANGED held

(***************************************************************************)
(* POST /api/auth/logout, GET /api/auth/me, POST /api/auth/verify-token    *)
(* (app.py:388-449).                                                       *)
(***************************************************************************)
logout_response(h) ==
    LET g == token_required(h, now) IN
    IF g.code # 0 THEN Rejected("logout", g)
    ELSE Response("logout", 200, "success")

logout(h) ==
    /\ UNCHANGED <<now, config, pending, store, held, verify_log, signed_up>>
    /\ resp' = logout_response(h)

get_user_response(h) ==
    LET g == token_required(h, now)
        found == {u \in users : u.user_id = g.payload.user_id}
    IN  IF g.code # 0 THEN Rejected("get_user", g)
        ELSE IF ~mongodb_connected
        THEN Error("get_user", 500, "Database not connected")
        ELSE IF found = {}
        THEN Error("get_user", 404, "User not found")
        ELSE LET user == CHOOSE u \in found : TRUE IN
             [Response("get_user", 200, "success") EXCEPT
                 !.user_id = user.user_id, !.email = user.email]

get_user(h) ==
    /\ UNCHANGED <<now, config, pending, store, held, verify_log, signed_up>>
    /\ resp' = get_user_response(h)

verify_token_response(part, t) ==
    LET payload == verify_jwt_token(part, t) IN
    IF part = Word("")
    THEN Error("verify_token", 400, "Token is missing")
    ELSE IF payload.valid
    THEN [Response("verify_token", 200, "success") EXCEPT
             !.flag = TRUE, !.user_id = payload.user_id, !.email = payload.email]
    ELSE Response("verify_token", 200, "success")

verify_token(part) ==
    /\ UNCHANGED <<now, config, pending, store, held, verify_log, signed_up>>
    /\ resp' = verify_token_response(part, now)

(***************************************************************************)
(* POST /api/predict (app.py:184-237, 455-497).                            *)
(***************************************************************************)
required_fields ==
    {"name", "year", "km_driven", "fuel", "seller_type", "transmission", "owner"}

current_year == 2024

categorical_fields == {"name", "fuel", "seller_type", "transmission", "owner"}
optional_fields == {"mileage", "engine", "max_power", "seats"}

\* label_encoders of the artifact bundle: the classes each encoder was
\* fitted on, in the encoder's (sorted) order
label_encoders ==
    [name |-> <<"Honda City", "Maruti Swift">>,
     fuel |-> <<"CNG", "Diesel", "Petrol">>,
     seller_type |-> <<"Dealer", "Individual">>,
     transmission |-> <<"Automatic", "Manual">>,
     owner |-> <<"First Owner", "Second Owner">>]

\* a value the encoder was fitted on gets its index; transform raises
\* ValueError for any other value, and that is answered with 0
safe_encode_label(encoder, value) ==
    IF \E i \in 1..Len(encoder) : encoder[i] = value
    THEN (CHOOSE i \in 1..Len(encoder) : encoder[i] = value) - 1
    ELSE 0

\* mileage_map.get(fuel, 18)
mileage_map(fuel) ==
    CASE fuel = "Petrol" -> 18
      [] fuel = "Diesel" -> 22
      [] fuel = "CNG" -> 25
      [] fuel = "Electric" -> 30
      [] OTHER -> 18

\* 'f' not in data or not data['f']: the key is absent, or its value is 0
Missing(data, f) == f \notin data.fields \/ data[f] = 0

\* the request body after the four defaults were written into it.  Numbers
\* are whole: mileage in km/l, engine in cc, max_power in hundredths of a
\* bhp (engine * 0.07 bhp is engine * 7 hundredths)
with_defaults(data) ==
    LET a == IF Missing(data, "mileage")
             THEN [data EXCEPT !.mileage = mileage_map(data.fuel)] ELSE data
        b == IF Missing(data, "engine") THEN [a EXCEPT !.engine = 1200] ELSE a
        c == IF Missing(data, "max_power")
             THEN [b EXCEPT !.max_power = b.engine * 7] ELSE b
        d == IF Missing(data, "seats") THEN [c EXCEPT !.seats = 5] ELSE c
    IN  [d EXCEPT !.fields = data.fields \cup optional_fields]

\* prepare_features: the vector of fourteen features, or the exception.
\* km_per_year divides by car_age + 1 and power_efficiency by the engine;
\* quotients are kept whole (power_efficiency in ten-thousandths)
prepare_features(data) ==
    LET car_age == current_year - data.year
        filled == with_defaults(data)
        failed == [raised |-> TRUE, error |-> "division by zero",
                   car_age |-> car_age, km_per_year |-> 0, data |-> data,
                   vector |-> <<>>]
    IN  IF car_age + 1 = 0 THEN failed
        ELSE LET km_per_year == data.km_driven \div (car_age + 1)
                 power_efficiency == (filled.max_power * 100) \div filled.engine
             IN  [raised |-> FALSE, error |-> "", car_age |-> car_age,
                  km_per_year |-> km_per_year, data |-> filled,
                  vector |->
                      <<data.year, data.km_driven, filled.mileage, filled.engine,
                        filled.max_power, filled.seats, car_age, km_per_year,
                        power_efficiency,
                        safe_encode_label(label_encoders.name, data.name),
                        safe_encode_label(label_encoders.fuel, data.fuel),
                        safe_encode_label(label_encoders.seller_type,
                                          data.seller_type),
                        safe_encode_label(label_encoders.transmission,
                                          data.transmission),
                        safe_encode_label(label_encoders.owner, data.owner)>>]

\* the fitted regressor of model_artifacts.pkl, a fixed function of the features
model_predict(features) == 900000 - 60000 * features.car_age - features.km_per_year

Min(a, b) == IF a < b THEN a ELSE b
Max(a, b) == IF a > b THEN a ELSE b

\* insert_one on cars: the unique index on car_id
cars_insert_raises(doc) == \E c \in cars : c.car_id = doc.car_id

\* a handler that refuses to work without the model
predict_handler_unavailable(user_id, data) ==
    IF model = "None"
    THEN [resp |-> Error("predict", 500, "Model not loaded"), cars |-> cars]
    ELSE [resp |-> Error("predict", 400, "Missing field"), cars |-> cars]

predict_handler(user_id, data) ==
    LET features == prepare_features(data)
        predicted_price ==
            IF model # "None"
            THEN Max(MinPrice, Min(model_predict(features), MaxPrice))
            ELSE FallbackPrice
        car_id == MakeId("CAR", now)
        \* prepare_features wrote its defaults into the request body
        car_details == IF model # "None" /\ ~features.raised
                       THEN features.data ELSE data
        car_doc == [car_id |-> car_id, user_id |-> user_id,
                    car_details |-> car_details,
                    predicted_price |-> predicted_price, created_at |-> now]
    IN  IF ~(required_fields \subseteq data.fields)
        THEN [resp |-> Error("predict", 400, "Missing field"), cars |-> cars]
        ELSE IF model # "None" /\ features.raised
        THEN [resp |-> Error("predict", 400, features.error), cars |-> cars]
        ELSE IF mongodb_connected /\ cars_insert_raises(car_doc)
        THEN [resp |-> Error("predict", 400, DuplicateKey), cars |-> cars]
        ELSE [resp |-> [Response("predict", 200, "success") EXCEPT
                           !.price = predicted_price, !.id = car_id],
              cars |-> IF mongodb_connected THEN cars \cup {car_doc} ELSE cars]

predict_result(h, data) ==
    LET g == token_required(h, now) IN
    IF g.code # 0
    THEN [resp |-> Rejected("predict", g), cars |-> cars]
    ELSE predict_handler(g.payload.user_id, data)

predict(h, data) ==
    /\ UNCHANGED <<now, config, pending, users, payments, bookings, gateway_orders,
                   outbox, held, verify_log, signed_up>>
    /\ LET r == predict_result(h, data) IN
        resp' = r.resp /\ cars' = r.cars

(***************************************************************************)
(* POST /api/create-order, /api/verify-payment, /api/book-inspection       *)
(* (app.py:503-616).                                                       *)
(***************************************************************************)
RAZORPAY_KEY_SECRET == 9001
\* a key that is not the gateway's
OtherSecret == RAZORPAY_KEY_SECRET + 1

\* the id the gateway gives its n-th order
OrderId(n) == <<"o", Digits[n + 1]>>

NoText == <<>>

\* insert_one on payments: the unique index on order_id
payments_insert_raises(doc) == \E o \in payments : o.order_id = doc.order_id

\* answers: whether razorpay_client.order.create returns an order or raises
create_order_handler(user_id, data, answers) ==
    LET order_id == OrderId(gateway_orders + 1)
        order_doc == [order_id |-> order_id, amount |-> data.amount,
                      user_id |-> user_id, car_id |-> data.car_id,
                      customer_email |-> data.customer_email,
                      status |-> "created", created_at |-> now,
                      payment_id |-> NoText, signature |-> NoText,
                      verified_at |-> -1]
        same == [resp |-> Response("create_order", 0, ""), payments |-> payments,
                 gateway_orders |-> gateway_orders]
    IN  IF razorpay_client = "None"
        THEN [same EXCEPT !.resp =
                 Error("create_order", 500, "Payment service not configured")]
        ELSE IF ~answers
        THEN [same EXCEPT !.resp = Error("create_order", 400, "gateway error")]
        ELSE IF mongodb_connected /\ payments_insert_raises(order_doc)
        THEN [same EXCEPT !.resp = Error("create_order", 400, DuplicateKey),
                          !.gateway_orders = gateway_orders + 1]
        ELSE [resp |-> [Response("create_order", 200, "success") EXCEPT
                           !.id = order_id, !.price = data.amount],
              payments |-> IF mongodb_connected
                           THEN payments \cup {order_doc} ELSE payments,
              gateway_orders |-> gateway_orders + 1]

create_order_result(h, data, answers) ==
    LET g == token_required(h, now) IN
    IF g.code # 0
    THEN [resp |-> Rejected("create_order", g), payments |-> payments,
          gateway_orders |-> gateway_orders]
    ELSE create_order_handler(g.payload.user_id, data, answers)

create_order(h, data) ==
    /\ UNCHANGED <<now, config, pending, users, cars, bookings, outbox, held,
                   verify_log, signed_up>>
    /\ \E answers \in BOOLEAN :
        LET r == create_order_result(h, data, answers) IN
        /\ r.gateway_orders <= MaxOrders
        /\ resp' = r.resp
        /\ payments' = r.payments
        /\ gateway_orders' = r.gateway_orders

\* hexdigest(): four lower-case hexadecimal digits of the digest
HexDigest(n) ==
    <<HexChars[((n \div 4096) % 16) + 1], HexChars[((n \div 256) % 16) + 1],
      HexChars[((n \div 16) % 16) + 1], HexChars[(n % 16) + 1]>>

\* hmac.new(key, f"{order_id}|{payment_id}", sha256).hexdigest()
hmac_hexdigest(key, order_id, payment_id) ==
    HexDigest(KeyedHash(key, order_id \o <<"|">> \o payment_id))

\* a comparison that takes any signature that is there
signature_matches_any(data) == data.signature # NoText

\* the comparison of line 561
signature_matches(data) ==
    hmac_hexdigest(RAZORPAY_KEY_SECRET, data.order_id, data.payment_id)
        = data.signature

\* an update that leaves 'status' out of its $set
payments_update_no_status(data) ==
    {IF o.order_id = data.order_id
     THEN [o EXCEPT !.payment_id = data.payment_id,
                    !.signature = data.signature,
                    !.verified_at = now]
     ELSE o : o \in payments}

\* update_one({'order_id': ...}, {'$set': {...}})
payments_update(data) ==
    {IF o.order_id = data.order_id
     THEN [o EXCEPT !.payment_id = data.payment_id,
                    !.signature = data.signature,
                    !.status = "verified",
                    !.verified_at = now]
     ELSE o : o \in payments}

AllFields == {"order_id", "payment_id", "signature"}

verify_payment_handler(data) ==
    IF ~(AllFields \subseteq data.fields)
    THEN [resp |-> Error("verify_payment", 400, "KeyError"), payments |-> payments]
    ELSE IF signature_matches(data)
    THEN [resp |-> Response("verify_payment", 200, "success"),
          payments |-> IF mongodb_connected THEN payments_update(data)
                       ELSE payments]
    ELSE [resp |-> Error("verify_payment", 400, "Invalid signature"),
          payments |-> payments]

verify_payment_result(h, data) ==
    LET g == token_required(h, now) IN
    IF g.code # 0
    THEN [resp |-> Rejected("verify_payment", g), payments |-> payments]
    ELSE verify_payment_handler(data)

\* history: the order ids for which a request carried the gateway's signature
GatewaySigned(data) ==
    /\ AllFields \subseteq data.fields
    /\ data.signature =
           HexDigest(KeyedHash(RAZORPAY_KEY_SECRET,
                               data.order_id \o <<"|">> \o data.payment_id))

verify_payment(h, data) ==
    /\ UNCHANGED <<now, config, pending, users, cars, bookings, gateway_orders,
                   outbox, held, signed_up>>
    /\ verify_log' = IF GatewaySigned(data)
                     THEN verify_log \cup {data.order_id} ELSE verify_log
    /\ LET r == verify_payment_result(h, data) IN
        resp' = r.resp /\ payments' = r.payments

\* insert_one on bookings: the unique index on booking_id
bookings_insert_raises(doc) == \E b \in bookings : b.booking_id = doc.booking_id

\* sent: whether send_booking_email got the mail out (it returns False when
\* it fails, and never raises)
book_inspection_handler(user_id, data, sent) ==
    LET booking_id == MakeId("BOOK", now)
        booking_doc == [booking_id |-> booking_id, user_id |-> user_id,
                        car_id |-> data.car_id, order_id |-> data.order_id,
                        customer_name |-> data.customer_name,
                        customer_email |-> data.customer_email,
                        customer_phone |-> data.customer_phone,
                        address |-> data.address,
                        inspection_date |-> data.inspection_date,
                        inspection_time |-> data.inspection_time,
                        status |-> "confirmed", created_at |-> now]
    IN  IF mongodb_connected /\ bookings_insert_raises(booking_doc)
        THEN [resp |-> Error("book_inspection", 400, DuplicateKey),
              bookings |-> bookings, outbox |-> outbox]
        ELSE [resp |-> [Response("book_inspection", 200, "success") EXCEPT
                           !.id = booking_id],
              bookings |-> IF mongodb_connected
                           THEN bookings \cup {booking_doc} ELSE bookings,
              outbox |-> IF sent THEN outbox \cup {booking_id} ELSE outbox]

book_inspection_result(h, data, sent) ==
    LET g == token_required(h, now) IN
    IF g.code # 0
    THEN [resp |-> Rejected("book_inspection", g), bookings |-> bookings,
          outbox |-> outbox]
    ELSE book_inspection_handler(g.payload.user_id, data, sent)

book_inspection(h, data) ==
    /\ UNCHANGED <<now, config, pending, users, cars, payments, gateway_orders,
                   held, verify_log, signed_up>>
    /\ \E sent \in BOOLEAN :
        LET r == book_inspection_result(h, data, sent) IN
        resp' = r.resp /\ bookings' = r.bookings /\ outbox' = r.outbox

(***************************************************************************)
(* GET /api/health (app.py:622-631).                                       *)
(***************************************************************************)
health_response ==
    [Response("health_check", 200, "healthy") EXCEPT !.flag = (model # "None")]

health_check ==
    /\ UNCHANGED <<now, config, pending, store, held, verify_log, signed_up>>
    /\ resp' = health_response

(***************************************************************************)
(* The URL map: the rules the @app.route decorators register.  A request   *)
(* that no rule matches never reaches a handler: the framework answers 404 *)
(* (werkzeug's NotFound).                                                  *)
(***************************************************************************)
url_map ==
    {<<"POST", "/api/auth/signup">>, <<"POST", "/api/auth/login">>,
     <<"POST", "/api/auth/logout">>, <<"GET", "/api/auth/me">>,
     <<"POST", "/api/auth/verify-token">>, <<"POST", "/api/predict">>,
     <<"POST", "/api/create-order">>, <<"POST", "/api/verify-payment">>,
     <<"POST", "/api/book-inspection">>, <<"GET", "/api/health">>}

\* GET /api/bookings/<booking_id>: no rule of url_map matches it, whatever
\* the id and whatever the bookings collection holds
get_booking_response(booking_id) ==
    IF \E rule \in url_map : rule = <<"GET", "/api/bookings/<id>">>
    THEN Response("get_booking", 200, "success")
    ELSE Error("get_booking", 404, "Not Found")

get_booking(booking_id) ==
    /\ UNCHANGED <<now, config, pending, store, held, verify_log, signed_up>>
    /\ resp' = get_booking_response(booking_id)

(***************************************************************************)
(* The clock: requests arrive at the instants of a small set.              *)
(***************************************************************************)
Tick(t) ==
    /\ t > now
    /\ now' = t
    /\ UNCHANGED <<config, pending, store, held, resp, verify_log, signed_up>>

(***************************************************************************)
(* The state after the module is loaded (app.py:29-117).                   *)
(***************************************************************************)
Init ==
    /\ now = 0
    /\ mongodb_connected \in BOOLEAN
    /\ model \in {"loaded", "None"}
    /\ razorpay_client \in {"client", "None"}
    /\ users = {}
    /\ cars = {}
    /\ payments = {}
    /\ bookings = {}
    /\ gateway_orders = 0
    /\ outbox = {}
    /\ held = {}
    /\ resp = Response("none", 0, "")
    /\ verify_log = {}
    /\ signed_up = {}
    /\ pending = <<>>

(***************************************************************************)
(* The requests the clients send.                                          *)
(***************************************************************************)
TokenLifetime == JWT_EXPIRATION_HOURS * SecondsPerHour

EmailA == <<"a", "@", "b", ".", "c">>
EmailASpelled == <<" ", "A", "@", "B", ".", "C", " ">>
EmailX == <<"x", "@", "y", ".", "z">>
EmailNoDot == <<"a", "@", "b", "c">>

PassSecret == <<"s", "e", "c", "r", "e", "t">>
PassOther == <<"p", "a", "s", "s", "e", "s">>
PassShort == <<"a", "b", "c">>
PassNumber == <<"1", "2", "3", "4", "5", "6">>

SignupInputs ==
    [name : {<<"n">>, <<>>},
     email : {EmailA, EmailASpelled, EmailX, EmailNoDot},
     password : {Str(PassSecret), Str(PassOther), Str(PassShort)}]

LoginInputs ==
    [email : {EmailA, EmailASpelled, EmailX},
     password : {Str(PassSecret), Str(PassOther), Num(PassNumber), Null}]

\* one visitor, for the specifications that are not about accounts
OneSignup == [name |-> <<"n">>, email |-> EmailA, password |-> Str(PassSecret)]
OneSalt == {CHOOSE salt \in Salts : TRUE}
OneLogin == [email |-> EmailA, password |-> Str(PassSecret)]

\* a held token signed again with another key, and one whose expiry was
\* pushed back under its old signature
Forged(tok) ==
    {JwtEncode(tok, OtherKey), [tok EXCEPT !.exp = tok.exp + TokenLifetime]}

TokenParts ==
    {Word(""), Word("garbage")}
        \cup {Jwt(h.tok) : h \in held}
        \cup {Jwt(f) : f \in UNION {Forged(h.tok) : h \in held}}

Headers ==
    {NoHeader, Header(<<Word("Bearer")>>)}
        \cup {Header(<<Word("Bearer"), p>>) : p \in TokenParts}
        \cup {Header(<<Word("Basic"), Jwt(h.tok)>>) : h \in held}

\* the header a page sends, and no header at all
PlainHeaders == {NoHeader} \cup {Header(<<Word("Bearer"), Jwt(h.tok)>>) : h \in held}

\* the car of test_api.py
OneCar ==
    [fields |-> required_fields \cup optional_fields,
     name |-> "Maruti Swift", year |-> 2018, km_driven |-> 45000,
     fuel |-> "Petrol", seller_type |-> "Individual", transmission |-> "Manual",
     owner |-> "First Owner", mileage |-> 19, engine |-> 1200,
     max_power |-> 8850, seats |-> 5]

\* that car, that car without 'fuel', and that car of a make and a fuel the
\* encoders never saw and with no optional field; each of two years
CarInputs ==
    {[c EXCEPT !.year = y] :
        c \in {OneCar,
               [OneCar EXCEPT !.fields = @ \ {"fuel"}],
               [OneCar EXCEPT !.fields = required_fields, !.name = "Tesla S",
                              !.fuel = "Electric", !.mileage = 0, !.engine = 0,
                              !.max_power = 0, !.seats = 0]},
        y \in {2018, 2025}}

\* bodies with all seven required fields: every subset of the optional
\* fields, known and unknown categories, years around the current year
FeatureInputs ==
    {[OneCar EXCEPT !.fields = required_fields \cup opt, !.year = y,
                    !.km_driven = km, !.name = n, !.fuel = f, !.owner = o,
                    !.mileage = z, !.engine = z * 63, !.max_power = z * 465,
                    !.seats = z \div 4] :
        opt \in SUBSET optional_fields, y \in 2016..2027, km \in {0, 45000},
        n \in {"Maruti Swift", "Tesla S"}, f \in {"Petrol", "CNG", "Electric"},
        o \in {"First Owner", "Fifth Owner"}, z \in {0, 19}}

\* the ids the gateway can have minted, and one it never mints
OrderIds == {OrderId(n) : n \in 1..MaxOrders} \cup {OrderId(0)}
PaymentIds == {<<"p", "1">>, <<"p", "2">>}

\* flip the last character of a signature
Tamper(sig) ==
    [sig EXCEPT ![Len(sig)] = IF sig[Len(sig)] = "0" THEN "1" ELSE "0"]

\* what a client may send as the signature of (o, p): the gateway's, that
\* one with a character changed, one made with another key, and the
\* gateway's signatures of the order's other payments and of the payment
\* under the other orders
SignaturesFor(o, p) ==
    LET good == hmac_hexdigest(RAZORPAY_KEY_SECRET, o, p) IN
    {good, Tamper(good), hmac_hexdigest(OtherSecret, o, p)}
        \cup {hmac_hexdigest(RAZORPAY_KEY_SECRET, o, q) : q \in PaymentIds}
        \cup {hmac_hexdigest(RAZORPAY_KEY_SECRET, o2, p) : o2 \in OrderIds}

VerifyInputs ==
    UNION {{[fields |-> AllFields, order_id |-> o, payment_id |-> p,
             signature |-> s] : s \in SignaturesFor(o, p)} :
                o \in OrderIds, p \in PaymentIds}
      \cup {[fields |-> AllFields \ {"signature"}, order_id |-> o,
             payment_id |-> p, signature |-> NoText] :
                o \in OrderIds, p \in PaymentIds}

OneOrder == [amount |-> 50000, car_id |-> MakeId("CAR", 0), customer_email |-> EmailA]

BookingInputs ==
    [car_id : {MakeId("CAR", 0)}, order_id : {OrderId(1), NoText},
     customer_name : {<<"n">>}, customer_email : {EmailA},
     customer_phone : {<<"9", "8">>}, address : {<<"a", "d", "r">>},
     inspection_date : {<<"2", "0", "2", "4">>}, inspection_time : {<<"1", "0">>}]

(***************************************************************************)
(* Accounts: signup and login with every kind of body, two requests in the *)
(* same second or a second apart.                                          *)
(***************************************************************************)
InitAuth == Init /\ model = "loaded" /\ razorpay_client = "client"

NextAuth ==
    \/ \E t \in {1} : Tick(t)
    \/ \E data \in SignupInputs : signup(data, Salts)
    \/ \E data \in LoginInputs : login(data)
    \/ \E h \in PlainHeaders : get_user(h)
    \/ \E h \in PlainHeaders : logout(h)

SpecAuth == InitAuth /\ [][NextAuth]_vars

(***************************************************************************)
(* Sessions: one visitor's tokens over a day and more.                     *)
(***************************************************************************)
SessionInstants == {1, TokenLifetime, TokenLifetime + 1, TokenLifetime + 2}

NextSession ==
    \/ \E t \in SessionInstants : Tick(t)
    \/ signup(OneSignup, OneSalt)
    \/ login(OneLogin)
    \/ \E p \in TokenParts : verify_token(p)
    \/ \E h \in Headers : logout(h)
    \/ \E h \in Headers : get_user(h)

SpecSession == InitAuth /\ [][NextSession]_vars

(***************************************************************************)
(* Payments: one visitor, the gateway's orders and their verification.     *)
(***************************************************************************)
InitPay == Init /\ model = "loaded"

NextPay ==
    \/ \E t \in {1} : Tick(t)
    \/ signup(OneSignup, OneSalt)
    \/ \E h \in PlainHeaders : create_order(h, OneOrder)
    \/ \E h \in PlainHeaders, data \in VerifyInputs : verify_payment(h, data)

SpecPay == InitPay /\ [][NextPay]_vars

(***************************************************************************)
(* Prediction: one visitor, with the model loaded or not.                  *)
(***************************************************************************)
InitPredict == Init /\ razorpay_client = "client"

NextPredict ==
    \/ \E t \in {1} : Tick(t)
    \/ signup(OneSignup, OneSalt)
    \/ \E h \in PlainHeaders, data \in CarInputs : predict(h, data)
    \/ health_check

SpecPredict == InitPredict /\ [][NextPredict]_vars

(***************************************************************************)
(* The whole service: one visitor who signs up, logs in, asks for a price, *)
(* pays one order and books, with two requests in the same second or a     *)
(* second apart.                                                           *)
(***************************************************************************)
InitAll ==
    Init /\ mongodb_connected /\ model = "loaded" /\ razorpay_client = "client"

OneVerify(sig) ==
    [fields |-> AllFields, order_id |-> OrderId(1), payment_id |-> <<"p", "1">>,
     signature |-> sig]

\* the gateway's signature of the visitor's payment, and that one tampered with
OneSignatures ==
    {hmac_hexdigest(RAZORPAY_KEY_SECRET, OrderId(1), <<"p", "1">>),
     Tamper(hmac_hexdigest(RAZORPAY_KEY_SECRET, OrderId(1), <<"p", "1">>))}

Next ==
    \/ \E t \in {1} : Tick(t)
    \/ signup(OneSignup, OneSalt)
    \/ login(OneLogin)
    \/ \E h \in PlainHeaders : logout(h)
    \/ \E h \in PlainHeaders : get_user(h)
    \/ \E h \in PlainHeaders : predict(h, OneCar)
    \/ payments = {} /\ \E h \in PlainHeaders : create_order(h, OneOrder)
    \/ \E h \in PlainHeaders, sig \in OneSignatures : verify_payment(h, OneVerify(sig))
    \/ \E h \in PlainHeaders, data \in BookingInputs : book_inspection(h, data)
    \/ health_check

Spec == InitAll /\ [][Next]_vars

(***************************************************************************)
(* The guard: one visitor's token, today and after it has expired, and     *)
(* every protected endpoint asked with every kind of header.               *)
(***************************************************************************)
NextGuard ==
    \/ \E t \in {TokenLifetime + 1} : Tick(t)
    \/ signup(OneSignup, OneSalt)
    \/ \E h \in Headers : logout(h)
    \/ \E h \in Headers : get_user(h)
    \/ \E h \in Headers : predict(h, OneCar)
    \/ payments = {} /\ \E h \in Headers : create_order(h, OneOrder)
    \/ \E h \in Headers, sig \in OneSignatures : verify_payment(h, OneVerify(sig))
    \/ \E h \in Headers, data \in BookingInputs : book_inspection(h, data)

SpecGuard == InitAll /\ [][NextGuard]_vars

(***************************************************************************)
(* The journey: one visitor goes from signup to a booking and asks for the *)
(* booking; bookings may be asked for at any point of the journey.         *)
(***************************************************************************)
GoodVerify ==
    OneVerify(hmac_hexdigest(RAZORPAY_KEY_SECRET, OrderId(1), <<"p", "1">>))

BookingIds == {MakeId("BOOK", 0), MakeId("BOOK", 1), MakeId("BOOK", 2)}

NextJourney ==
    \/ \E t \in {1} : Tick(t)
    \/ signup(OneSignup, OneSalt)
    \/ login(OneLogin)
    \/ \E h \in PlainHeaders : predict(h, OneCar)
    \/ payments = {} /\ \E h \in PlainHeaders : create_order(h, OneOrder)
    \/ \E h \in PlainHeaders : verify_payment(h, GoodVerify)
    \/ \E h \in PlainHeaders, data \in BookingInputs : book_inspection(h, data)
    \/ \E id \in BookingIds : get_booking(id)

SpecJourney == InitAll /\ [][NextJourney]_vars

(***************************************************************************)
(* The race: signups that overlap, two for one address (typed in two ways) *)
(* and one for another, in the same second or a second apart.              *)
(***************************************************************************)
RaceSignups ==
    {OneSignup,
     [OneSignup EXCEPT !.email = EmailASpelled, !.password = Str(PassOther)],
     [OneSignup EXCEPT !.email = EmailX]}

InitRace ==
    /\ now = 0
    /\ mongodb_connected = TRUE
    /\ model = "loaded"
    /\ razorpay_client = "client"
    /\ users = {}
    /\ cars = {}
    /\ payments = {}
    /\ bookings = {}
    /\ gateway_orders = 0
    /\ outbox = {}
    /\ held = {}
    /\ resp = Response("none", 0, "")
    /\ verify_log = {}
    /\ signed_up = {}
    /\ pending = [r \in Requests |-> Idle]

NextRace ==
    \/ \E t \in {1} : Tick(t)
    \/ \E r \in Requests, data \in RaceSignups, salt \in OneSalt :
           signup_lookup(r, data, salt)
    \/ \E r \in Requests : signup_insert(r)

SpecRace == InitRace /\ [][NextRace]_vars

(***************************************************************************)
(* Failures: every start-up outcome (database, model, gateway), requests   *)
(* that make a handler raise, two requests in the same second.  A visitor  *)
(* of a server that came up without its database still holds the token an  *)
(* earlier run of the server issued: tokens are checked without the        *)
(* database (app.py:143-151).                                              *)
(***************************************************************************)
PriorToken == create_jwt_token(MakeId("USER", 0), EmailA, 0)

InitErrors ==
    /\ now = 0
    /\ mongodb_connected \in BOOLEAN
    /\ model \in {"loaded", "None"}
    /\ razorpay_client \in {"client", "None"}
    /\ users = {}
    /\ cars = {}
    /\ payments = {}
    /\ bookings = {}
    /\ gateway_orders = 0
    /\ outbox = {}
    /\ held = IF mongodb_connected THEN {}
              ELSE {[tok |-> PriorToken, at |-> 0, user_id |-> MakeId("USER", 0),
                     email |-> EmailA]}
    /\ resp = Response("none", 0, "")
    /\ verify_log = {}
    /\ signed_up = {}
    /\ pending = <<>>

ErrorSignups == {OneSignup, [OneSignup EXCEPT !.password = Num(PassNumber)]}
ErrorLogins == {OneLogin, [OneLogin EXCEPT !.password = Num(PassNumber)]}
ErrorVerifies ==
    {OneVerify(sig) : sig \in OneSignatures}
        \cup {[OneVerify(NoText) EXCEPT !.fields = AllFields \ {"signature"}]}

NextErrors ==
    \/ \E data \in ErrorSignups : signup(data, OneSalt)
    \/ \E data \in ErrorLogins : login(data)
    \/ \E h \in PlainHeaders : logout(h)
    \/ \E h \in PlainHeaders : get_user(h)
    \/ \E p \in TokenParts : verify_token(p)
    \/ \E h \in PlainHeaders, data \in CarInputs : predict(h, data)
    \/ \E h \in PlainHeaders : create_order(h, OneOrder)
    \/ \E h \in PlainHeaders, data \in ErrorVerifies : verify_payment(h, data)
    \/ \E h \in PlainHeaders, data \in BookingInputs : book_inspection(h, data)
    \/ health_check

SpecErrors == InitErrors /\ [][NextErrors]_vars

(***************************************************************************)
(* What the claims speak of.                                               *)
(***************************************************************************)
\* a header that carries, as Bearer token, a token the server issued and
\* whose 24 hours have not elapsed
Authenticated(h) ==
    \E k \in held :
        /\ h = Header(<<Word("Bearer"), Jwt(k.tok)>>)
        /\ now < k.at + TokenLifetime

\* no header, a header without a second part, or a second part that is no
\* token the server issued or one whose 24 hours have elapsed
Unauthenticated(h) ==
    \/ ~h.present
    \/ Len(h.parts) < 2
    \/ h.parts[2].w # "jwt"
    \/ ~\E k \in held : k.tok = h.parts[2].tok /\ now < k.at + TokenLifetime

\* HMAC-SHA256(gateway secret, order_id + "|" + payment_id), as hex
GatewaySignature(order_id, payment_id) ==
    HexDigest(KeyedHash(RAZORPAY_KEY_SECRET, order_id \o <<"|">> \o payment_id))

(***************************************************************************)
(* C1: an order has status 'verified' only if a verify-payment request for *)
(* its order_id carried the gateway's signature of order_id|payment_id; no *)
(* other operation sets the status.                                        *)
(***************************************************************************)
C1_VerifiedOnlyBySignature ==
    \A o \in payments : o.status = "verified" => o.order_id \in verify_log

C1_Witness ==
    /\ \E o \in payments : o.status = "verified"
    /\ resp.op = "book_inspection"
    /\ resp.code = 200

(***************************************************************************)
(* C2: once verify-payment has marked an order verified, no later request  *)
(* changes its status, payment_id, signature or verified_at.               *)
(***************************************************************************)
C2_VerifiedOrderIsFrozen ==
    [][\A o \in payments : o.status = "verified" => o \in payments']_vars

(***************************************************************************)
(* C3: an authenticated verify-payment request whose signature is the      *)
(* gateway's gets a success response and its order is marked verified; any *)
(* other signature gets a 400 error and leaves every payments record as it *)
(* was.                                                                    *)
(***************************************************************************)
C3_VerifyPaymentOutcome ==
    \A h \in PlainHeaders, data \in VerifyInputs :
        Authenticated(h) =>
            LET r == verify_payment_result(h, data) IN
            IF /\ AllFields \subseteq data.fields
               /\ data.signature = GatewaySignature(data.order_id, data.payment_id)
            THEN /\ r.resp.code = 200
                 /\ r.resp.status = "success"
                 /\ \A o \in payments :
                        o.order_id = data.order_id =>
                            \E o2 \in r.payments :
                                o2.order_id = o.order_id /\ o2.status = "verified"
            ELSE /\ r.resp.code = 400
                 /\ r.resp.status = "error"
                 /\ r.payments = payments

C3_Witness ==
    /\ resp.op = "verify_payment"
    /\ resp.code = 400
    /\ resp.error = "Invalid signature"
    /\ \E o \in payments : o.status = "verified"
    /\ \E o \in payments : o.status = "created"

C5_DuplicateSignupRejected ==
    \A data \in SignupInputs, salt \in Salts :
        (\E s \in signed_up : Lower(Strip(s.email)) = Lower(Strip(data.email))) =>
            LET r == signup_result(data, salt) IN
            r.resp.status = "error" /\ r.users = users

C5_Witness ==
    /\ resp.op = "signup"
    /\ resp.error = "Email already registered"
    /\ \E s \in signed_up : s.email = EmailASpelled

(***************************************************************************)
(* C6: with the database connected, every signup with a non-empty name, an *)
(* email with '@' and a dot in its domain part, a password of at least 6   *)
(* characters and an email not yet registered stores a new user and        *)
(* returns success with a user id and a session token, whatever the time   *)
(* since the signup before.                                                *)
(***************************************************************************)
WellFormedSignup(data) ==
    /\ data.name # <<>>
    /\ Contains(data.email, "@")
    /\ Contains(SplitSecond(data.email, "@"), ".")
    /\ data.password.t = "str"
    /\ Len(data.password.s) >= MinPasswordLen
    /\ ~\E u \in users : u.email = Lower(Strip(data.email))

C6_ValidSignupSucceeds ==
    mongodb_connected =>
        \A data \in SignupInputs, salt \in Salts :
            WellFormedSignup(data) =>
                LET r == signup_result(data, salt) IN
                /\ r.resp.status = "success"
                /\ r.resp.user_id # NoId
                /\ r.resp.token # NoToken
                /\ Cardinality(r.users) = Cardinality(users) + 1

(***************************************************************************)
(* C7: after a signup with (email, password) has succeeded, every later    *)
(* login with that email and password succeeds and returns that user's     *)
(* user_id and a session token.                                            *)
(***************************************************************************)
C7_LoginAfterSignup ==
    \A s \in signed_up :
        LET r == login_response([email |-> s.email, password |-> s.password]) IN
        /\ r.code = 200
        /\ r.status = "success"
        /\ r.user_id = s.user_id
        /\ r.token # NoToken

C7_Witness ==
    /\ resp.op = "login"
    /\ resp.code = 200
    /\ Cardinality(signed_up) = 2
    /\ \E u \in users : u.last_login > u.created_at

(***************************************************************************)
(* C8: a login with a registered email and a wrong password gets the same  *)
(* response, 401 with the same message, as a login with an email that is   *)
(* not registered.                                                         *)
(***************************************************************************)
Registered(email) == \E s \in signed_up : Lower(Strip(s.email)) = Lower(Strip(email))

WrongPassword(email, password) ==
    /\ Truthy(password)
    /\ \A s \in signed_up :
           Lower(Strip(s.email)) = Lower(Strip(email)) => s.password # password

C8_LoginFailuresAlike ==
    \A known \in LoginInputs, unknown \in LoginInputs :
        (/\ Registered(known.email)
         /\ WrongPassword(known.email, known.password)
         /\ ~Registered(unknown.email)
         /\ unknown.password = known.password) =>
            /\ login_response(known).code = 401
            /\ login_response(known) = login_response(unknown)

(***************************************************************************)
(* C9: a token issued at time t for (user_id, email) is accepted at every  *)
(* time before t + 24 hours and then yields that user_id and email; after  *)
(* t + 24 hours it is rejected; a token not signed with the server's       *)
(* secret is rejected at every time.                                       *)
(***************************************************************************)
C9_TokenLifetime ==
    \A k \in held :
        LET r == verify_token_response(Jwt(k.tok), now) IN
        /\ now < k.at + TokenLifetime =>
               r.flag /\ r.user_id = k.user_id /\ r.email = k.email
        /\ now > k.at + TokenLifetime => ~r.flag
        /\ \A f \in Forged(k.tok) : ~verify_token_response(Jwt(f), now).flag

C9_Witness ==
    /\ resp.op = "verify_token"
    /\ resp.flag
    /\ \E k \in held : k.at > 0 /\ now = k.at + TokenLifetime - 1

(***************************************************************************)
(* C10: if loading the model failed, every authenticated predict request   *)
(* with all required fields returns the fixed fallback price and health    *)
(* reports model_loaded false; if loading succeeded, health reports true.  *)
(***************************************************************************)
C10_DegradedMode ==
    /\ health_response.flag = (model # "None")
    /\ model = "None" =>
           \A h \in PlainHeaders, data \in CarInputs :
               (Authenticated(h) /\ required_fields \subseteq data.fields) =>
                   LET r == predict_result(h, data) IN
                   /\ r.resp.status = "success"
                   /\ r.resp.price = FallbackPrice

(***************************************************************************)
(* C11 as stated: an error raised inside a handler is answered with the    *)
(* error envelope and status 400, and a handler answers 500 only when the  *)
(* model is unavailable, never for a database that is not connected or a   *)
(* gateway that is not configured.                                         *)
(***************************************************************************)
InternalErrors ==
    {DuplicateKey, "division by zero", "'int' object has no attribute 'encode'",
     "object of type 'int' has no len()", "gateway error", "KeyError"}

RaisedIsBadRequest ==
    resp.error \in InternalErrors => resp.code = 400 /\ resp.status = "error"

C12_BookingFetch ==
    /\ \A b \in bookings :
           (/\ \E o \in payments : o.order_id = b.order_id /\ o.status = "verified"
            /\ \E c \in cars : c.user_id = b.user_id) =>
               /\ get_booking_response(b.booking_id).code = 200
               /\ b.status = "confirmed"
               /\ \E data \in BookingInputs :
                      /\ b.car_id = data.car_id
                      /\ b.order_id = data.order_id
                      /\ b.customer_name = data.customer_name
                      /\ b.customer_email = data.customer_email
                      /\ b.customer_phone = data.customer_phone
                      /\ b.address = data.address
                      /\ b.inspection_date = data.inspection_date
                      /\ b.inspection_time = data.inspection_time
    /\ \A id \in BookingIds :
           (~\E b \in bookings : b.booking_id = id) =>
               get_booking_response(id).code = 404

(***************************************************************************)
(* C13: every stored booking names an existing order whose status is       *)
(* 'verified'; no booking exists for an order that is missing or still     *)
(* 'created'.                                                              *)
(***************************************************************************)
C13_BookingAfterVerification ==
    \A b \in bookings :
        \E o \in payments : o.order_id = b.order_id /\ o.status = "verified"

(***************************************************************************)
(* C14: for every record with all seven required fields, with any year and *)
(* km_driven, prepare_features gives a vector of fourteen features and     *)
(* does not raise, whichever optional fields are present; a categorical    *)
(* value its encoder does not know is encoded as 0.                        *)
(***************************************************************************)
Unknown(field, value) ==
    ~\E i \in 1..Len(label_encoders[field]) : label_encoders[field][i] = value

\* prepare_features runs when the model is loaded (app.py:469-470)
C14_FeaturesNeverRaise ==
    model # "None" =>
        \A data \in FeatureInputs :
            LET f == prepare_features(data) IN
            /\ ~f.raised
            /\ Len(f.vector) = 14
            /\ Unknown("name", data.name) => f.vector[10] = 0
            /\ Unknown("fuel", data.fuel) => f.vector[11] = 0
            /\ Unknown("owner", data.owner) => f.vector[14] = 0

(***************************************************************************)
(* C16: with the database connected, every authenticated predict request   *)
(* with all required fields gets a success response with a car_id and adds *)
(* exactly one record under that car_id, a car_id no earlier response      *)
(* carried, also for several requests within the same clock second.  The   *)
(* cars are those of a year up to the current one.                         *)
(***************************************************************************)
C16_PredictionRecordPerCall ==
    mongodb_connected =>
        \A h \in PlainHeaders, data \in CarInputs :
            (/\ Authenticated(h)
             /\ required_fields \subseteq data.fields
             /\ data.year <= current_year) =>
                LET r == predict_result(h, data) IN
                /\ r.resp.status = "success"
                /\ r.resp.id # NoId
                /\ ~\E c \in cars : c.car_id = r.resp.id
                /\ \E c \in r.cars : c.car_id = r.resp.id /\ r.cars = cars \cup {c}
                /\ Cardinality(r.cars) = Cardinality(cars) + 1

(***************************************************************************)
(* C15: under every interleaving of signup requests that look the email up *)
(* and insert later, users never holds two users with the same email; when *)
(* two finished signups for one email both passed the lookup, exactly one  *)
(* signup for that email got a token and the others got an error response. *)
(***************************************************************************)
PassedLookup(r) == pending[r].pc = "done" /\ pending[r].doc # <<>>

Winners(email) ==
    {r \in Requests : /\ PassedLookup(r)
                      /\ pending[r].doc.email = email
                      /\ pending[r].resp.code = 201
                      /\ pending[r].resp.token # NoToken}

C15_SignupRace ==
    /\ \A u1 \in users, u2 \in users : u1.email = u2.email => u1 = u2
    /\ \A r1 \in Requests, r2 \in Requests :
           (/\ r1 # r2
            /\ PassedLookup(r1)
            /\ PassedLookup(r2)
            /\ pending[r1].doc.email = pending[r2].doc.email) =>
               /\ Cardinality(Winners(pending[r1].doc.email)) = 1
               /\ \A r \in {r1, r2} \ Winners(pending[r1].doc.email) :
                      /\ pending[r].resp.status = "error"
                      /\ pending[r].resp.token = NoToken

(***************************************************************************)
(* C17: a successful logout changes no server state, and a token that is   *)
(* within its 24 hours is, after the logout and at every later instant     *)
(* before its expiry, still let through by every protected endpoint and    *)
(* reported valid by verify-token.                                         *)
(***************************************************************************)
AcceptedEverywhere(tok) ==
    LET h == Header(<<Word("Bearer"), Jwt(tok)>>) IN
    /\ logout_response(h).code = 200
    /\ get_user_response(h).code # 401
    /\ predict_result(h, OneCar).resp.code # 401
    /\ create_order_result(h, OneOrder, TRUE).resp.code # 401
    /\ verify_payment_result(h, GoodVerify).resp.code # 401
    /\ \A data \in BookingInputs :
           book_inspection_result(h, data, TRUE).resp.code # 401
    /\ verify_token_response(Jwt(tok), now).flag

\* the last request answered was a successful logout
LoggedOut == resp.op = "logout" /\ resp.code = 200

C17_LogoutKeepsSession ==
    [][LoggedOut' =>
          /\ now' = now => (store' = store /\ config' = config /\ held' = held)
          /\ \A k \in held' :
                 now' < k.at + TokenLifetime => AcceptedEverywhere(k.tok)']_vars

C17_Witness ==
    /\ LoggedOut
    /\ \E k \in held : k.at > 0 /\ now = k.at + TokenLifetime - 1

====
